---- MODULE Spec2Model ----
(***************************************************************************)
(* Model of the holdings-string classifier of the Advanced Library System  *)
(* (src/smart_parser.py, src/config.py).  Strings are TLA+ strings; a      *)
(* character is a string of length one.  Optional slots of the record are  *)
(* sequences of length zero (Python None) or one.                          *)
(***************************************************************************)
EXTENDS Integers, Sequences, FiniteSets, TLC

\* ------------------------------------------------------------------------
\* Characters and str methods
\* ------------------------------------------------------------------------
\* s[i:i+1] with 1-based i: the empty string outside the string
Char(s, i) == IF i >= 1 /\ i <= Len(s) THEN SubSeq(s, i, i) ELSE ""

Digits == {"0", "1", "2", "3", "4", "5", "6", "7", "8", "9"}

DigitVal == ("0" :> 0) @@ ("1" :> 1) @@ ("2" :> 2) @@ ("3" :> 3) @@ ("4" :> 4)
            @@ ("5" :> 5) @@ ("6" :> 6) @@ ("7" :> 7) @@ ("8" :> 8) @@ ("9" :> 9)

DigitChar == <<"0", "1", "2", "3", "4", "5", "6", "7", "8", "9">>

UpperLetters == {"A", "B", "C", "D", "E", "F", "G", "H", "I", "J", "K", "L", "M",
                 "N", "O", "P", "Q", "R", "S", "T", "U", "V", "W", "X", "Y", "Z"}

LowerToUpper == ("a" :> "A") @@ ("b" :> "B") @@ ("c" :> "C") @@ ("d" :> "D")
                @@ ("e" :> "E") @@ ("f" :> "F") @@ ("g" :> "G") @@ ("h" :> "H")
                @@ ("i" :> "I") @@ ("j" :> "J") @@ ("k" :> "K") @@ ("l" :> "L")
                @@ ("m" :> "M") @@ ("n" :> "N") @@ ("o" :> "O") @@ ("p" :> "P")
                @@ ("q" :> "Q") @@ ("r" :> "R") @@ ("s" :> "S") @@ ("t" :> "T")
                @@ ("u" :> "U") @@ ("v" :> "V") @@ ("w" :> "W") @@ ("x" :> "X")
                @@ ("y" :> "Y") @@ ("z" :> "Z")

WhiteSpace == {" ", "\t"}

Min(S) == CHOOSE x \in S : \A y \in S : x <= y
Max(S) == CHOOSE x \in S : \A y \in S : x >= y

None == <<>>
Some(v) == <<v>>

\* call by value: Python evaluates an argument before the call
Eager(Op(_), v) == CHOOSE r \in {Op(w) : w \in {v}} : TRUE

\* eight iterations of a loop body (a body leaves a finished loop state alone)
Step8(Op(_), v) ==
    LET x1 == Op(v)
        x2 == Op(x1)
        x3 == Op(x2)
        x4 == Op(x3)
        x5 == Op(x4)
        x6 == Op(x5)
        x7 == Op(x6)
        x8 == Op(x7)
    IN <<x1, x2, x3, x4, x5, x6, x7, x8>>[8]

\* the characters c with c.isdigit(): the decimal digits and digit-like
\* characters such as SUPERSCRIPT TWO, which int() does not accept
DigitLike == Digits \cup {"²"}

\* str.isdigit() on the characters of the model's alphabet
IsDigitStr(s) == Len(s) > 0 /\ \A i \in 1..Len(s) : Char(s, i) \in DigitLike

\* any(c.isdigit() for c in s)
HasDigit(s) == \E i \in 1..Len(s) : Char(s, i) \in DigitLike

\* `sub in s`
Contains(s, sub) ==
    \E i \in 1..(Len(s) - Len(sub) + 1) : SubSeq(s, i, i + Len(sub) - 1) = sub

\* s.upper()
RECURSIVE Upper(_)
Upper(s) ==
    IF Len(s) = 0 THEN ""
    ELSE IF Len(s) = 1 THEN (IF s \in DOMAIN LowerToUpper THEN LowerToUpper[s] ELSE s)
    ELSE Upper(SubSeq(s, 1, Len(s) \div 2)) \o Upper(SubSeq(s, Len(s) \div 2 + 1, Len(s)))

\* s.replace(c, '') for a single character c
RECURSIVE RemoveChar(_, _)
RemoveChar(s, c) ==
    IF Len(s) = 0 THEN ""
    ELSE IF Len(s) = 1 THEN (IF s = c THEN "" ELSE s)
    ELSE RemoveChar(SubSeq(s, 1, Len(s) \div 2), c)
         \o RemoveChar(SubSeq(s, Len(s) \div 2 + 1, Len(s)), c)

\* end of the maximal run of characters of class cls starting at i (i-1 if empty)
RunEnd(s, i, cls) ==
    LET stop == {j \in i..Len(s) : Char(s, j) \notin cls}
    IN IF i > Len(s) THEN i - 1
       ELSE IF stop = {} THEN Len(s) ELSE Min(stop) - 1

\* first index j >= i with s[j] = c, 0 when there is none
FindChar(s, c, i) ==
    LET hit == {j \in i..Len(s) : Char(s, j) = c}
    IN IF hit = {} THEN 0 ELSE Min(hit)

\* ------------------------------------------------------------------------
\* Arbitrary-precision naturals (Python int), little-endian limbs
\* ------------------------------------------------------------------------
Base == 10000

BigLimb(a, i) == IF i >= 1 /\ i <= Len(a) THEN a[i] ELSE 0

\* the limbs f[1..n] as a sequence
BigLimbs(f, n) == SubSeq(f, 1, n)

\* a without its leading zero limbs
BigNorm(a) ==
    LET n == Len(a)
        z == CHOOSE z \in 0..n : /\ \A k \in (n - z + 1)..n : a[k] = 0
                                 /\ (z = n \/ a[n - z] # 0)
    IN SubSeq(a, 1, n - z)

\* the carry into limb i of the pending sums s (each at most 2 * Base - 2):
\* the nearest lower limb that does not pass a carry on generates one
BigCarryIn(s, i) ==
    IF \A d \in 1..(i - 1) : s[i - d] = Base - 1 THEN 0
    ELSE LET d == CHOOSE d \in 1..(i - 1) : /\ s[i - d] # Base - 1
                                            /\ \A k \in 1..(d - 1) : s[i - k] = Base - 1
         IN IF s[i - d] >= Base THEN 1 ELSE 0

BigCarry(s) ==
    BigNorm(BigLimbs([i \in 1..Len(s) |-> (s[i] + BigCarryIn(s, i)) % Base], Len(s)))

\* a * m + c for 0 <= m, c < Base
BigMulAddRaw(a, m, c) ==
    LET t == BigLimbs([i \in 1..Len(a) |-> a[i] * m + (IF i = 1 THEN c ELSE 0)], Len(a))
    IN IF a = <<>> THEN <<c>>
       ELSE BigLimbs([i \in 1..(Len(a) + 1) |->
                        (IF i <= Len(a) THEN t[i] % Base ELSE 0)
                        + (IF i > 1 THEN t[i - 1] \div Base ELSE 0)], Len(a) + 1)

BigMulAdd(a, m, c) == BigCarry(BigMulAddRaw(a, m, c))

BigDouble(a) == BigMulAdd(a, 2, 0)

\* a * 2^12 and a * 2^96
BigTimes4096(a) == BigMulAdd(a, 4096, 0)

BigTimesTwo96(a) == Step8(BigTimes4096, a)

BigAdd(a, b) ==
    LET n == IF Len(a) > Len(b) THEN Len(a) ELSE Len(b)
    IN BigCarry(BigLimbs([i \in 1..(n + 1) |-> BigLimb(a, i) + BigLimb(b, i)], n + 1))

\* the borrow into limb i of the pending differences t
BigBorrowIn(t, i) ==
    IF \A d \in 1..(i - 1) : t[i - d] = 0 THEN 0
    ELSE LET d == CHOOSE d \in 1..(i - 1) : /\ t[i - d] # 0
                                            /\ \A k \in 1..(d - 1) : t[i - k] = 0
         IN IF t[i - d] < 0 THEN 1 ELSE 0

\* a - b for a >= b
BigSub(a, b) ==
    LET t == BigLimbs([i \in 1..Len(a) |-> a[i] - BigLimb(b, i)], Len(a))
    IN BigNorm(BigLimbs([i \in 1..Len(a) |-> (t[i] - BigBorrowIn(t, i) + Base) % Base], Len(a)))

\* a < b for normalised a and b
BigLess(a, b) ==
    IF Len(a) # Len(b) THEN Len(a) < Len(b)
    ELSE IF a = b THEN FALSE
    ELSE LET n == Len(a)
             d == CHOOSE d \in 0..(n - 1) : /\ a[n - d] # b[n - d]
                                            /\ \A k \in 0..(d - 1) : a[n - k] = b[n - k]
         IN a[n - d] < b[n - d]

\* floor(a / m) for m in {2, 4, 8, 16}, which divide Base
BigDivPow2(a, m) ==
    BigNorm(BigLimbs([i \in 1..Len(a) |-> ((BigLimb(a, i + 1) % m) * Base + a[i]) \div m], Len(a)))

BigHalf(a) == BigDivPow2(a, 2)

\* one limb of the multiplier b
BigMulStep(st) ==
    IF st.i > Len(st.b) THEN st
    ELSE [st EXCEPT !.i = st.i + 1,
                    !.acc = BigAdd(st.acc, [k \in 1..(st.i - 1) |-> 0]
                                           \o BigMulAdd(st.a, st.b[st.i], 0))]

\* a * b for a multiplier b of at most 8 limbs
BigMul(a, b) == BigNorm(Step8(BigMulStep, [a |-> a, b |-> b, i |-> 1, acc |-> <<>>]).acc)

PowTen == <<1, 10, 100, 1000>>

\* 10 ** e
BigPowTen(e) == [i \in 1..(e \div 4) |-> 0] \o <<PowTen[(e % 4) + 1]>>

Limb4(n) == DigitChar[(n \div 1000) + 1] \o DigitChar[((n \div 100) % 10) + 1]
            \o DigitChar[((n \div 10) % 10) + 1] \o DigitChar[(n % 10) + 1]

\* s without its leading zeros, keeping one character
StripZeros(s) ==
    IF s = "" THEN s
    ELSE IF \A k \in 1..Len(s) : Char(s, k) = "0" THEN "0"
    ELSE LET z == CHOOSE z \in 0..(Len(s) - 1) : /\ Char(s, z + 1) # "0"
                                                  /\ \A k \in 1..z : Char(s, k) = "0"
         IN SubSeq(s, z + 1, Len(s))

\* int(s) for a string s of at most four ASCII digits
Small4(s) ==
    LET p == SubSeq("0000", 1, 4 - Len(s)) \o s
    IN DigitVal[Char(p, 1)] * 1000 + DigitVal[Char(p, 2)] * 100
       + DigitVal[Char(p, 3)] * 10 + DigitVal[Char(p, 4)]

\* int(s) for a string of ASCII digits, saturated at cap <= Base - 1
SmallOfDigits(s, cap) ==
    LET z == StripZeros(s)
    IN IF Len(z) > 4 THEN cap ELSE IF Small4(z) > cap THEN cap ELSE Small4(z)

\* int(s) for a string of ASCII digits: four digits to the limb
BigOfDigits(s) ==
    LET n == (Len(s) + 3) \div 4
    IN BigNorm(BigLimbs([i \in 1..n |->
                   Small4(SubSeq(s, IF Len(s) - 4 * i + 1 < 1 THEN 1 ELSE Len(s) - 4 * i + 1,
                                 Len(s) - 4 * (i - 1)))], n))

\* the decimal digits of limbs i..j, four per limb
RECURSIVE BigDigitsDC(_, _, _)
BigDigitsDC(a, i, j) ==
    IF i > j THEN ""
    ELSE IF i = j THEN Limb4(a[i])
    ELSE LET h == (i + j) \div 2
         IN BigDigitsDC(a, h + 1, j) \o BigDigitsDC(a, i, h)

BigDigitsRaw(a) == BigDigitsDC(a, 1, Len(a))

\* str(n)
BigStr(a) == IF a = <<>> THEN "0" ELSE StripZeros(BigDigitsRaw(a))

\* ------------------------------------------------------------------------
\* IEEE-754 binary64 (Python float): a positive finite value is q * 2^s with
\* 2^52 <= q < 2^53, zero is q = <<>>; inf marks an overflowed product
\* ------------------------------------------------------------------------
Two52 == BigMulAdd(BigTimes4096(BigTimes4096(BigTimes4096(<<4096>>))), 16, 0)
Two53 == BigDouble(Two52)

\* smallest s for which q * 2^s with q >= 2^52 is no longer finite
FloatInfExp == 972

\* largest e for which float(10 ** e) is finite (sys.float_info.max_10_exp)
FloatMax10Exp == 308

\* sixty-four iterations of a loop body
Step64(Op(_), v) ==
    LET y1 == Step8(Op, v)
        y2 == Step8(Op, y1)
        y3 == Step8(Op, y2)
        y4 == Step8(Op, y3)
        y5 == Step8(Op, y4)
        y6 == Step8(Op, y5)
        y7 == Step8(Op, y6)
        y8 == Step8(Op, y7)
    IN <<y1, y2, y3, y4, y5, y6, y7, y8>>[8]

\* one step of scaling n / d into [2^52, 2^53): lo = d * 2^(52 + s)
FloatScaleStep(st) ==
    IF st.done THEN st
    ELSE IF BigLess(st.n, st.lo)
    THEN (IF BigLess(BigMulAdd(st.n, 8192, 0), st.lo)
          THEN [st EXCEPT !.n = BigTimes4096(st.n), !.s = st.s - 12]
          ELSE [st EXCEPT !.n = BigDouble(st.n), !.s = st.s - 1])
    ELSE LET hi == BigTimesTwo96(st.lo)
         IN IF Len(st.n) > Len(hi) \/ ~BigLess(st.n, BigDouble(hi))
            THEN [st EXCEPT !.lo = hi, !.s = st.s + 96]
            ELSE IF ~BigLess(st.n, BigMulAdd(st.lo, 8192, 0))
            THEN [st EXCEPT !.lo = BigTimes4096(st.lo), !.s = st.s + 12]
            ELSE IF ~BigLess(st.n, BigDouble(st.lo))
            THEN [st EXCEPT !.lo = BigDouble(st.lo), !.s = st.s + 1]
            ELSE [st EXCEPT !.done = TRUE]

\* n / d scaled into [2^52, 2^53): at most 11 steps of 96 bits, 8 of 12 and
\* 12 of one for a quotient below 2^1077
FloatScale(n, lo) == Step64(FloatScaleStep, [n |-> n, lo |-> lo, s |-> 0, done |-> FALSE])

\* one quotient bit of r / d, t = d * 2^k
FloatDivStep(st) ==
    IF st.k < 0 THEN st
    ELSE LET ge == ~BigLess(st.r, st.t)
         IN [r |-> IF ge THEN BigSub(st.r, st.t) ELSE st.r,
             t |-> IF st.k = 0 THEN st.t ELSE BigHalf(st.t),
             q |-> BigMulAdd(st.q, 2, IF ge THEN 1 ELSE 0),
             k |-> st.k - 1]

\* the 53 quotient bits of r / d: quotient q, remainder r, divisor t
FloatDivBits(st) == Step64(FloatDivStep, st)

\* the rounded quotient q1 at scale s: a carry out of 53 bits moves the scale
FloatPack(q1, s) ==
    IF q1 = Two53 THEN [q |-> Two52, s |-> s + 1, inf |-> FALSE]
    ELSE [q |-> q1, s |-> s, inf |-> FALSE]

\* round to nearest, ties to even: twice the remainder against the divisor
FloatRoundUp(dv, twice, s) ==
    FloatPack(IF BigLess(dv.t, twice) \/ (twice = dv.t /\ dv.q[1] % 2 = 1)
              THEN BigAdd(dv.q, <<1>>) ELSE dv.q, s)

FloatRoundBits(dv, s) == FloatRoundUp(dv, BigDouble(dv.r), s)

FloatRoundScaled(sc) ==
    FloatRoundBits(FloatDivBits([r |-> sc.n, t |-> sc.lo, q |-> <<>>, k |-> 52]), sc.s)

\* the double nearest to n / d, ties to even
FloatRound(n, d) ==
    IF n = <<>> THEN [q |-> <<>>, s |-> 0, inf |-> FALSE]
    ELSE FloatRoundScaled(FloatScale(n, BigMul(d, Two52)))

\* float(text) for text of the shape \d\.\d+
FloatOfDecimal(text) ==
    FloatRound(BigOfDigits(Char(text, 1) \o SubSeq(text, 3, Len(text))),
               BigPowTen(Len(text) - 2))

\* r * 2^s, inf when the exponent leaves the range of a double
FloatScaled(r, s) == [q |-> r.q, s |-> r.s + s, inf |-> r.s + s >= FloatInfExp]

\* a * b
FloatMul(a, b) ==
    IF a.q = <<>> \/ b.q = <<>> THEN [q |-> <<>>, s |-> 0, inf |-> FALSE]
    ELSE FloatScaled(FloatRound(BigMul(a.q, b.q), <<1>>), a.s + b.s)

BigShiftStep(st) ==
    IF st.s = 0 \/ st.a = <<>> THEN [a |-> st.a, s |-> 0]
    ELSE IF st.s >= 96 THEN [a |-> BigTimesTwo96(st.a), s |-> st.s - 96]
    ELSE IF st.s >= 12 THEN [a |-> BigTimes4096(st.a), s |-> st.s - 12]
    ELSE IF st.s > 0 THEN [a |-> BigDouble(st.a), s |-> st.s - 1]
    ELSE IF st.s <= -4 THEN [a |-> BigDivPow2(st.a, 16), s |-> st.s + 4]
    ELSE [a |-> BigHalf(st.a), s |-> st.s + 1]

\* a * 2^s, rounded towards zero, for -53 <= s < FloatInfExp
BigShift(st) == Step64(BigShiftStep, st).a

\* int(f) for a finite f
FloatTrunc(f) == BigShift([a |-> f.q, s |-> f.s])

\* ------------------------------------------------------------------------
\* IntelligentParser.heal_data
\* ------------------------------------------------------------------------
\* PATTERNS['scientific_notation'] = (\d\.\d+)[Ee]\+(\d+) matched at position i
SciMatch(s, i) ==
    LET fEnd == RunEnd(s, i + 2, Digits)
        eEnd == RunEnd(s, fEnd + 3, Digits)
        ok   == /\ Char(s, i) \in Digits
                /\ Char(s, i + 1) = "."
                /\ fEnd >= i + 2
                /\ Char(s, fEnd + 1) \in {"E", "e"}
                /\ Char(s, fEnd + 2) = "+"
                /\ eEnd >= fEnd + 3
    IN IF ok THEN [ok |-> TRUE, last |-> eEnd, g1 |-> SubSeq(s, i, fEnd),
                   g2 |-> SubSeq(s, fEnd + 3, eEnd)]
       ELSE [ok |-> FALSE, last |-> 0, g1 |-> "", g2 |-> ""]

\* str(int(p)): int() of an infinite p raises OverflowError
HealStr(p) ==
    IF p.inf THEN [ok |-> FALSE, text |-> ""]
    ELSE [ok |-> TRUE, text |-> BigStr(FloatTrunc(p))]

\* the replacement without the power of ten: str(int(float(m.group(1))))
HealReplaceNoScale(g1, g2) == HealStr(FloatOfDecimal(g1))

\* lambda m: str(int(float(m.group(1)) * (10 ** int(m.group(2)))))
HealReplace(g1, g2) ==
    LET e == SmallOfDigits(g2, FloatMax10Exp + 1)
    IN IF e > FloatMax10Exp THEN [ok |-> FALSE, text |-> ""]
       ELSE HealStr(FloatMul(FloatOfDecimal(g1), FloatRound(BigPowTen(e), <<1>>)))

\* the text before a match, its replacement and the substituted rest
HealJoin(head, rep, rest) ==
    [ok |-> rep.ok /\ rest.ok, text |-> head \o rep.text \o rest.text]

RECURSIVE HealFrom(_, _)

\* the match m found at j while substituting from i on
HealMatch(s, i, j, m) ==
    HealJoin(SubSeq(s, i, j - 1), HealReplace(m.g1, m.g2), HealFrom(s, m.last + 1))

\* re.sub over the leftmost non-overlapping matches from position i on
HealFrom(s, i) ==
    LET starts == {j \in i..Len(s) : SciMatch(s, j).ok}
    IN IF starts = {} THEN [ok |-> TRUE, text |-> SubSeq(s, i, Len(s))]
       ELSE HealMatch(s, i, Min(starts), SciMatch(s, Min(starts)))

\* ok = FALSE: the call raises OverflowError
heal_data(text) == HealFrom(text, 1)

\* ------------------------------------------------------------------------
\* IntelligentParser.tokenize: PATTERNS['tokenizer'].findall
\* ------------------------------------------------------------------------
DQ == "\""
SQ == "'"

\* the match of \S+ at i taken up to the next space only
TokenEndSpaceOnly(s, i) ==
    IF Char(s, i) \in {"", " "} THEN 0
    ELSE RunEnd(s, i, {Char(s, j) : j \in 1..Len(s)} \ {" "})

\* last index of the match of  \"\'[^\"]+\'\"|\"[^\"]+\"|\'[^\']+\'|\S+  at i, 0 if none
TokenEnd(s, i) ==
    LET c   == Char(s, i)
        dq2 == FindChar(s, DQ, i + 2)
        dq1 == FindChar(s, DQ, i + 1)
        sq1 == FindChar(s, SQ, i + 1)
    IN IF c = DQ /\ Char(s, i + 1) = SQ /\ dq2 >= i + 4 /\ Char(s, dq2 - 1) = SQ THEN dq2
       ELSE IF c = DQ /\ dq1 >= i + 2 THEN dq1
       ELSE IF c = SQ /\ sq1 >= i + 2 THEN sq1
       ELSE IF c # "" /\ c \notin WhiteSpace
            THEN RunEnd(s, i, {Char(s, j) : j \in 1..Len(s)} \ WhiteSpace)
       ELSE 0

RECURSIVE FindAll(_, _)
FindAll(s, i) ==
    LET starts == {j \in i..Len(s) : Char(s, j) \notin WhiteSpace}
    IN IF starts = {} THEN <<>>
       ELSE LET j == Min(starts)
                e == TokenEnd(s, j)
            IN <<SubSeq(s, j, e)>> \o FindAll(s, e + 1)

\* ------------------------------------------------------------------------
\* Shapes of config.PATTERNS
\* ------------------------------------------------------------------------
\* every character of s[i..j] is a digit
DigitsAt(s, i, j) == \A k \in i..j : Char(s, k) \in Digits

\* PATTERNS['time']: ^\d{2}:\d{2}:\d{2}$
TimeMatch(t) ==
    /\ Len(t) = 8
    /\ DigitsAt(t, 1, 2) /\ Char(t, 3) = ":" /\ DigitsAt(t, 4, 5)
    /\ Char(t, 6) = ":" /\ DigitsAt(t, 7, 8)

\* PATTERNS['currency']: ^(INR|USD|EUR|GBP|RS\.?|RS)$, re.IGNORECASE
CurrencyMatch(t) == Upper(t) \in {"INR", "USD", "EUR", "GBP", "RS", "RS."}

\* PATTERNS['date'].match: \d{4}-\d{2}-\d{2} | \d{2}-\d{2}-\d{4} | \d{2}/\d{2}/\d{4}
\* at the start of the token
DateMatch(t) ==
    \/ /\ DigitsAt(t, 1, 4) /\ Char(t, 5) = "-" /\ DigitsAt(t, 6, 7)
       /\ Char(t, 8) = "-" /\ DigitsAt(t, 9, 10)
    \/ /\ DigitsAt(t, 1, 2) /\ Char(t, 3) = "-" /\ DigitsAt(t, 4, 5)
       /\ Char(t, 6) = "-" /\ DigitsAt(t, 7, 10)
    \/ /\ DigitsAt(t, 1, 2) /\ Char(t, 3) = "/" /\ DigitsAt(t, 4, 5)
       /\ Char(t, 6) = "/" /\ DigitsAt(t, 7, 10)

\* PATTERNS['price']: ^\d+\.\d{2}$
PriceMatch(t) ==
    /\ Len(t) >= 4
    /\ DigitsAt(t, 1, Len(t) - 3)
    /\ Char(t, Len(t) - 2) = "."
    /\ DigitsAt(t, Len(t) - 1, Len(t))

\* PATTERNS['shelving'].match: ^[A-Z0-9]+-[A-Z0-9]+-[A-Z0-9]+ at the start
ShelvingMatch(t) ==
    LET cls == UpperLetters \cup Digits
        e1  == RunEnd(t, 1, cls)
        e2  == RunEnd(t, e1 + 2, cls)
    IN /\ e1 >= 1 /\ Char(t, e1 + 1) = "-"
       /\ e2 >= e1 + 2 /\ Char(t, e2 + 1) = "-"
       /\ Char(t, e2 + 2) \in cls

\* PATTERNS['garbage']
Garbage == {"0", "NONE", "NULL", "STAC", "STACK", "GEN", "REF"}

\* ------------------------------------------------------------------------
\* datetime.strptime, date values <<year, month, day>>
\* ------------------------------------------------------------------------
IsLeap(y) == y % 4 = 0 /\ (y % 100 # 0 \/ y % 400 = 0)

DaysIn(y, m) ==
    IF m = 2 THEN (IF IsLeap(y) THEN 29 ELSE 28)
    ELSE IF m \in {4, 6, 9, 11} THEN 30 ELSE 31

Num(s) == SmallOfDigits(s, 9999)

ValidDate(y, m, d) == y >= 1 /\ m >= 1 /\ m <= 12 /\ d >= 1 /\ d <= DaysIn(y, m)

\* datetime(y, m, d): ok = FALSE when the fields are out of range (ValueError)
DateOf(y, m, d) ==
    IF ValidDate(y, m, d) THEN [ok |-> TRUE, d |-> <<y, m, d>>]
    ELSE [ok |-> FALSE, d |-> <<0, 0, 0>>]

\* strptime(t, "%d<sep>%m<sep>%Y"): the whole token must be consumed
StrpDMY(t, sep) ==
    IF /\ Len(t) = 10
       /\ DigitsAt(t, 1, 2) /\ Char(t, 3) = sep /\ DigitsAt(t, 4, 5)
       /\ Char(t, 6) = sep /\ DigitsAt(t, 7, 10)
    THEN DateOf(Num(SubSeq(t, 7, 10)), Num(SubSeq(t, 4, 5)), Num(SubSeq(t, 1, 2)))
    ELSE [ok |-> FALSE, d |-> <<0, 0, 0>>]

\* strptime(t, "%Y-%m-%d")
StrpYMD(t) ==
    IF /\ Len(t) = 10
       /\ DigitsAt(t, 1, 4) /\ Char(t, 5) = "-" /\ DigitsAt(t, 6, 7)
       /\ Char(t, 8) = "-" /\ DigitsAt(t, 9, 10)
    THEN DateOf(Num(SubSeq(t, 1, 4)), Num(SubSeq(t, 6, 7)), Num(SubSeq(t, 9, 10)))
    ELSE [ok |-> FALSE, d |-> <<0, 0, 0>>]

\* the try block of the date branch: ok = FALSE when strptime raises
ParseDate(t) ==
    IF Contains(t, "-") /\ Char(t, 3) = "-" THEN StrpDMY(t, "-")
    ELSE IF Contains(t, "/") THEN StrpDMY(t, "/")
    ELSE StrpYMD(t)

Pad2(n) == DigitChar[(n \div 10) + 1] \o DigitChar[(n % 10) + 1]

\* str(d.date())
IsoDate(d) == Limb4(d[1]) \o "-" \o Pad2(d[2]) \o "-" \o Pad2(d[3])

\* d.strftime("%d/%m/%Y"): glibc does not pad the year
SlashDate(d) == Pad2(d[3]) \o "/" \o Pad2(d[2]) \o "/" \o StripZeros(Limb4(d[1]))

\* datetime ordering
DateLess(a, b) ==
    \/ a[1] < b[1]
    \/ a[1] = b[1] /\ a[2] < b[2]
    \/ a[1] = b[1] /\ a[2] = b[2] /\ a[3] < b[3]

\* the dates left in the order of their token positions
SortedDatesPositional(ds) == ds

\* sorted(date_indices, key=lambda x: x[1]): stable insertion from the left
RECURSIVE SortedDates(_)
SortedDates(ds) ==
    IF ds = <<>> THEN <<>>
    ELSE LET init == SortedDates(SubSeq(ds, 1, Len(ds) - 1))
             x    == ds[Len(ds)]
             keep == {k \in 1..Len(init) : ~DateLess(x.d, init[k].d)}
             n    == Cardinality(keep)
         IN SubSeq(init, 1, n) \o <<x>> \o SubSeq(init, n + 1, Len(init))

\* float(token) for a token of the price shape
FloatOfPrice(t) ==
    FloatRound(BigOfDigits(SubSeq(t, 1, Len(t) - 3) \o SubSeq(t, Len(t) - 1, Len(t))),
               <<100>>)

\* ------------------------------------------------------------------------
\* Inputs
\* ------------------------------------------------------------------------
\* number of vocabulary tokens appended to a prefix
MaxTokens == 2

\* number of fragments of a string handed to the healer alone
MaxFragments == 3

\* number of successive heal_data calls on one string
MaxPasses == 2

ScenarioA == "0 0 0 0 250.00 2007-06-15 VIT IIF-R76-C2-A 621.7:744 BHA 5023"
ScenarioB == "INV-204 1984-02-10 VIT 2007-06-15"
ScenarioC == "9.78812E+12"

\* leading tokens of a holdings string: status flags, near misses, an anchor
Prefixes ==
    {"", "0 0 0 0", "1 0 1", "0 0 X 0", "INV-204 1984-02-10",
     "1 0 1 1 usd 10:30:00 NONE"}

Vocabulary ==
    {"2007-06-15", "15-06-2007", "03/03/1999", "2021-13-45", "VIT", "250.00",
     "0250", "5023", "621.7:744", "BHA", "IIF-R76-C2-A", "'AB'", "7"}

\* item_type_hint values passed by run_migration
Hints == {"BK", "EB"}

RECURSIVE TokenStrings(_)
TokenStrings(n) ==
    IF n = 0 THEN {""}
    ELSE LET shorter == TokenStrings(n - 1)
         IN shorter \cup {(IF t = "" THEN "" ELSE t \o " ") \o v :
                              t \in shorter, v \in Vocabulary}

\* holdings strings outside the vocabulary: a repeated date value, a removed
\* token before the first date, a rejected anchor, two prices, hyphenated
\* numbers, an alphanumeric accession number
EdgeStrings ==
    {"1984-02-10 10-02-1984 2007-06-15", "INV-1 usd 2007-06-15",
     "STAC 2007-06-15", "250.00 99.50", "044-2345-6789", "EB1234"}

RawStrings ==
    {ScenarioA, ScenarioB, ScenarioC, "9.9E+400 VIT", "1 0 ² 0 VIT", " "}
    \cup EdgeStrings
    \cup {(IF p = "" \/ t = "" THEN p ELSE p \o " ") \o t :
              p \in Prefixes, t \in TokenStrings(MaxTokens)}

Fragments ==
    {"1.", "1.0E+0", "E+1", "2.3e+2", "9.78812E+12", "9.9E+400"}

RECURSIVE FragmentStrings(_)
FragmentStrings(n) ==
    IF n = 0 THEN {""}
    ELSE LET shorter == FragmentStrings(n - 1)
         IN shorter \cup {t \o f : t \in shorter, f \in Fragments}

\* ------------------------------------------------------------------------
\* State
\* ------------------------------------------------------------------------
VARIABLES
    pc,              \* position of the caller: __init__, then the steps of parse()
    raw_string,      \* argument of __init__
    item_type_hint,  \* self.item_type_hint
    raw,             \* self.raw
    tokens,          \* self.tokens
    data,            \* self.data
    date_indices,    \* local of parse(): (index in clean_tokens, datetime)
    unknowns,        \* local of parse()
    vendor_parts,    \* local of parse()
    result,          \* what parse() returned: "pending", "None", "data", "raised"
    text,            \* heal_data alone: the successive strings
    hpc,             \* heal_data alone: "idle", "run", "raised"
    other,           \* a second IntelligentParser instance and its parse() locals
    lines,           \* run_migration: the lines of INPUT_FILE
    line_no,         \* run_migration: index of the next line of the for loop
    batch_biblio,    \* run_migration: buffered biblio_master rows
    batch_items,     \* run_migration: buffered physical_items rows
    biblio_master,   \* the committed table biblio_master, keyed by biblio_id
    physical_items,  \* the committed table physical_items, in item_id order
    dpc              \* run_migration: "idle", "loop", "closed", "aborted"

vars == <<pc, raw_string, item_type_hint, raw, tokens, data, date_indices,
          unknowns, vendor_parts, result, text, hpc, other, lines, line_no,
          batch_biblio, batch_items, biblio_master, physical_items, dpc>>

parserVars == <<pc, raw_string, item_type_hint, raw, tokens, data, date_indices,
                unknowns, vendor_parts, result>>

healVars == <<text, hpc>>

driverVars == <<lines, line_no, batch_biblio, batch_items, biblio_master,
                physical_items, dpc>>

\* what a single parser instance never touches
restVars == <<other, lines, line_no, batch_biblio, batch_items, biblio_master,
              physical_items, dpc>>

\* self.data of __init__
InitialData ==
    [price |-> None, currency |-> "INR", barcode |-> None, call_number |-> None,
     shelving_location |-> None, library_code |-> None, vendor |-> None,
     bill_number |-> None, bill_date |-> None, date_acquired |-> None,
     last_seen_date |-> None, last_seen_time |-> None,
     status_flags |-> <<0, 0, 0, 0>>]

ParserIdle ==
    /\ pc = "idle" /\ raw_string = "" /\ item_type_hint = "BK" /\ raw = ""
    /\ tokens = <<>> /\ data = InitialData /\ date_indices = <<>>
    /\ unknowns = <<>> /\ vendor_parts = <<>> /\ result = "pending"

HealIdle == text = <<>> /\ hpc = "idle"

\* no second instance
OtherIdle == other = [pc |-> "idle"]

\* run_migration is not running
DriverIdle ==
    /\ lines = <<>> /\ line_no = 0 /\ batch_biblio = <<>> /\ batch_items = <<>>
    /\ biblio_master = <<>> /\ physical_items = <<>> /\ dpc = "idle"

\* a caller is about to construct IntelligentParser(raw_string, item_type_hint)
Init ==
    /\ pc = "new"
    /\ raw_string \in RawStrings
    /\ item_type_hint \in Hints
    /\ raw = "" /\ tokens = <<>> /\ data = InitialData /\ date_indices = <<>>
    /\ unknowns = <<>> /\ vendor_parts = <<>> /\ result = "pending"
    /\ HealIdle
    /\ OtherIdle
    /\ DriverIdle

\* ------------------------------------------------------------------------
\* IntelligentParser.__init__
\* ------------------------------------------------------------------------
Construct ==
    /\ pc = "new"
    /\ LET h == IF raw_string # "" THEN heal_data(raw_string) ELSE [ok |-> TRUE, text |-> ""]
       IN IF h.ok
          THEN /\ raw' = h.text
               /\ pc' = "constructed"
               /\ result' = result
          ELSE /\ raw' = raw
               /\ pc' = "raised"
               /\ result' = "raised"
    /\ tokens' = <<>>
    /\ data' = InitialData
    /\ UNCHANGED <<raw_string, item_type_hint, date_indices, unknowns, vendor_parts>>
    /\ UNCHANGED healVars
    /\ UNCHANGED restVars

\* ------------------------------------------------------------------------
\* IntelligentParser.parse
\* ------------------------------------------------------------------------
\* parse() without the guard on self.raw: the untouched self.data is returned
ParseEmptyRecord ==
    /\ pc = "constructed"
    /\ raw = ""
    /\ pc' = "done"
    /\ result' = "data"
    /\ UNCHANGED <<raw_string, item_type_hint, raw, tokens, data, date_indices,
                   unknowns, vendor_parts>>
    /\ UNCHANGED healVars
    /\ UNCHANGED restVars

\* parse(): `if not self.raw: return None`
ParseEmpty ==
    /\ pc = "constructed"
    /\ raw = ""
    /\ pc' = "done"
    /\ result' = "None"
    /\ UNCHANGED <<raw_string, item_type_hint, raw, tokens, data, date_indices,
                   unknowns, vendor_parts>>
    /\ UNCHANGED healVars
    /\ UNCHANGED restVars

\* parse(): self.tokenize()
Tokenize ==
    /\ pc = "constructed"
    /\ raw # ""
    /\ tokens' = FindAll(raw, 1)
    /\ pc' = "tokenized"
    /\ UNCHANGED <<raw_string, item_type_hint, raw, data, date_indices,
                   unknowns, vendor_parts, result>>
    /\ UNCHANGED healVars
    /\ UNCHANGED restVars

\* t.isdigit() and len(t) == 1
IsFlag(t) == IsDigitStr(t) /\ Len(t) = 1

\* step 1 with the slice outside the check: four tokens leave the pool whenever
\* four exist
ExtractFlagsSliceAlways ==
    /\ pc = "tokenized"
    /\ IF Len(tokens) >= 4 /\ \A i \in 1..4 : IsFlag(tokens[i])
       THEN IF \A i \in 1..4 : tokens[i] \in Digits
            THEN /\ data' = [data EXCEPT
                               !.status_flags = [i \in 1..4 |-> DigitVal[tokens[i]]]]
                 /\ tokens' = SubSeq(tokens, 5, Len(tokens))
                 /\ pc' = "flags"
                 /\ result' = result
            ELSE /\ UNCHANGED <<data, tokens>>
                 /\ pc' = "raised"
                 /\ result' = "raised"
       ELSE /\ data' = data
            /\ tokens' = IF Len(tokens) >= 4 THEN SubSeq(tokens, 5, Len(tokens)) ELSE tokens
            /\ pc' = "flags"
            /\ result' = result
    /\ UNCHANGED <<raw_string, item_type_hint, raw, date_indices, unknowns, vendor_parts>>
    /\ UNCHANGED healVars
    /\ UNCHANGED restVars

\* parse() step 1: extract flags; int(x) raises ValueError for a character
\* that is a digit to isdigit() and no decimal digit
ExtractFlags ==
    /\ pc = "tokenized"
    /\ IF Len(tokens) >= 4 /\ \A i \in 1..4 : IsFlag(tokens[i])
       THEN IF \A i \in 1..4 : tokens[i] \in Digits
            THEN /\ data' = [data EXCEPT
                               !.status_flags = [i \in 1..4 |-> DigitVal[tokens[i]]]]
                 /\ tokens' = SubSeq(tokens, 5, Len(tokens))
                 /\ pc' = "flags"
                 /\ result' = result
            ELSE /\ UNCHANGED <<data, tokens>>
                 /\ pc' = "raised"
                 /\ result' = "raised"
       ELSE /\ UNCHANGED <<data, tokens>>
            /\ pc' = "flags"
            /\ result' = result
    /\ UNCHANGED <<raw_string, item_type_hint, raw, date_indices, unknowns, vendor_parts>>
    /\ UNCHANGED healVars
    /\ UNCHANGED restVars

\* one iteration of the loop of step 2 over self.tokens
DateLoopBody(st) ==
    IF st.i > Len(st.toks) THEN st
    ELSE LET token == st.toks[st.i]
             next  == [st EXCEPT !.i = st.i + 1]
             d     == ParseDate(token)
         IN IF TimeMatch(token) THEN [next EXCEPT !.time = Some(token)]
            ELSE IF CurrencyMatch(token) THEN [next EXCEPT !.currency = Upper(token)]
            ELSE IF DateMatch(token)
                 THEN (IF d.ok
                       THEN [next EXCEPT
                               !.dates = Append(st.dates, [pos |-> Len(st.clean), d |-> d.d]),
                               !.clean = Append(st.clean, token)]
                       ELSE next)
            ELSE [next EXCEPT !.clean = Append(st.clean, token)]

RECURSIVE DateLoop(_)
DateLoop(st) == IF st.i > Len(st.toks) THEN st ELSE Eager(DateLoop, DateLoopBody(st))

\* parse() step 2: identify dates and anchors
IdentifyDates ==
    /\ pc = "flags"
    /\ LET st == DateLoop([toks |-> tokens, i |-> 1, time |-> data.last_seen_time,
                           currency |-> data.currency, dates |-> <<>>, clean |-> <<>>])
       IN /\ data' = [data EXCEPT !.last_seen_time = st.time, !.currency = st.currency]
          /\ date_indices' = st.dates
          /\ tokens' = st.clean
    /\ pc' = "dates"
    /\ UNCHANGED <<raw_string, item_type_hint, raw, unknowns, vendor_parts, result>>
    /\ UNCHANGED healVars
    /\ UNCHANGED restVars

\* the literals the anchor filter rejects
AnchorRejected == {"0", "NONE", "VIT", "NULL", "STAC"}

\* the date roles of step 3
DateRoles(dt, ds) ==
    LET sorted_dates == SortedDates(ds)
        n            == Len(sorted_dates)
    IN [dt EXCEPT
          !.bill_date = Some(sorted_dates[1].d),
          !.last_seen_date = Some(sorted_dates[n].d),
          !.date_acquired = IF n > 1
                            THEN Some(IF n > 2 THEN sorted_dates[2].d ELSE sorted_dates[n].d)
                            ELSE dt.date_acquired]

\* the anchor read at the index of the first date instead of the index before it
BillNumberOfAtDate(dt, ds, toks) ==
    LET first_date_pos == ds[1].pos
        candidate      == toks[first_date_pos + 1]
    IN IF first_date_pos > 0 /\ candidate \notin AnchorRejected
       THEN [dt EXCEPT !.bill_number = Some(RemoveChar(RemoveChar(candidate, DQ), SQ))]
       ELSE dt

\* the anchor of step 3: the token before the first date of the token list
BillNumberOf(dt, ds, toks) ==
    LET first_date_pos == ds[1].pos
        candidate      == toks[first_date_pos]
    IN IF first_date_pos > 0 /\ candidate \notin AnchorRejected
       THEN [dt EXCEPT !.bill_number = Some(RemoveChar(RemoveChar(candidate, DQ), SQ))]
       ELSE dt

\* step 3 anchoring on the first token of the date shape when no date parsed
BillNumberExtractionByShape ==
    /\ pc = "dates"
    /\ data' = IF date_indices # <<>>
               THEN BillNumberOf(DateRoles(data, date_indices), date_indices, tokens)
               ELSE LET toks   == FindAll(raw, 1)
                        shaped == {i \in 2..Len(toks) : DateMatch(toks[i])}
                    IN IF shaped # {}
                       THEN [data EXCEPT !.bill_number = Some(toks[Min(shaped) - 1])]
                       ELSE data
    /\ pc' = "anchor"
    /\ UNCHANGED <<raw_string, item_type_hint, raw, tokens, date_indices, unknowns,
                   vendor_parts, result>>
    /\ UNCHANGED healVars
    /\ UNCHANGED restVars

\* parse() step 3: bill number extraction
BillNumberExtraction ==
    /\ pc = "dates"
    /\ data' = IF date_indices # <<>>
               THEN BillNumberOf(DateRoles(data, date_indices), date_indices, tokens)
               ELSE data
    /\ pc' = "anchor"
    /\ UNCHANGED <<raw_string, item_type_hint, raw, tokens, date_indices, unknowns,
                   vendor_parts, result>>
    /\ UNCHANGED healVars
    /\ UNCHANGED restVars

\* `Skip known entities` of step 4
IsKnownDate(token, ds) ==
    \E k \in 1..Len(ds) :
        Contains(token, IsoDate(ds[k].d)) \/ Contains(token, SlashDate(ds[k].d))

\* one iteration of the loop of step 4 over self.tokens
ContextLoopBody(st) ==
    IF st.i > Len(st.toks) THEN st
    ELSE LET token == st.toks[st.i]
             next  == [st EXCEPT !.i = st.i + 1]
         IN IF Some(token) = st.data.bill_number THEN next
            ELSE IF IsKnownDate(token, st.dates) THEN next
            ELSE IF token = "VIT" THEN [next EXCEPT !.data.library_code = Some("VIT")]
            ELSE IF ShelvingMatch(token)
                 THEN [next EXCEPT !.data.shelving_location = Some(token)]
            ELSE IF PriceMatch(token)
                 THEN [next EXCEPT !.data.price = Some(FloatOfPrice(token))]
            ELSE [next EXCEPT !.unknowns = Append(st.unknowns, token)]

RECURSIVE ContextLoop(_)
ContextLoop(st) == IF st.i > Len(st.toks) THEN st ELSE Eager(ContextLoop, ContextLoopBody(st))

\* parse() step 4: context filling
ContextFilling ==
    /\ pc = "anchor"
    /\ LET st == ContextLoop([toks |-> tokens, i |-> 1, data |-> data,
                              dates |-> date_indices, unknowns |-> <<>>])
       IN /\ data' = st.data
          /\ unknowns' = st.unknowns
    /\ pc' = "context"
    /\ UNCHANGED <<raw_string, item_type_hint, raw, tokens, date_indices,
                   vendor_parts, result>>
    /\ UNCHANGED healVars
    /\ UNCHANGED restVars

\* is_price of step 5 (finite prices)
IsPrice(price, token) ==
    /\ price # None
    /\ price[1].q # <<>>
    /\ BigStr(FloatTrunc(price[1])) = token

\* one iteration of the loop of step 5 over unknowns
ResidualLoopBody(st) ==
    IF st.i > Len(st.toks) THEN st
    ELSE LET token == st.toks[st.i]
             next  == [st EXCEPT !.i = st.i + 1]
         IN IF IsDigitStr(token) /\ Len(token) > 3 /\ ~IsPrice(st.data.price, token)
            THEN (IF st.data.barcode = None
                  THEN [next EXCEPT !.data.barcode = Some(token)] ELSE next)
            ELSE IF (Contains(token, ".") \/ Contains(token, ":")) /\ HasDigit(token)
            THEN (IF st.data.call_number = None
                  THEN [next EXCEPT !.data.call_number = Some(token)] ELSE next)
            ELSE IF token \notin Garbage /\ Len(token) > 1
            THEN [next EXCEPT !.vendor = Append(st.vendor, token)]
            ELSE next

RECURSIVE ResidualLoop(_)
ResidualLoop(st) ==
    IF st.i > Len(st.toks) THEN st ELSE Eager(ResidualLoop, ResidualLoopBody(st))

\* " ".join(parts)
RECURSIVE Join(_)
Join(parts) ==
    IF parts = <<>> THEN ""
    ELSE IF Len(parts) = 1 THEN parts[1]
    ELSE Join(SubSeq(parts, 1, Len(parts) - 1)) \o " " \o parts[Len(parts)]

\* parse() step 5: vendor vs call number vs barcode, and the return
VendorCallBarcode ==
    /\ pc = "context"
    /\ LET st == ResidualLoop([toks |-> unknowns, i |-> 1, data |-> data, vendor |-> <<>>])
       IN /\ vendor_parts' = st.vendor
          /\ data' = IF st.vendor # <<>>
                     THEN [st.data EXCEPT !.vendor = Some(Join(st.vendor))]
                     ELSE st.data
    /\ pc' = "done"
    /\ result' = "data"
    /\ UNCHANGED <<raw_string, item_type_hint, raw, tokens, date_indices, unknowns>>
    /\ UNCHANGED healVars
    /\ UNCHANGED restVars

Next ==
    \/ Construct
    \/ ParseEmpty
    \/ Tokenize
    \/ ExtractFlags
    \/ IdentifyDates
    \/ BillNumberExtraction
    \/ ContextFilling
    \/ VendorCallBarcode

Spec == Init /\ [][Next]_vars

\* ------------------------------------------------------------------------
\* heal_data called on its own, repeatedly on its own output
\* ------------------------------------------------------------------------
InitHeal ==
    /\ ParserIdle
    /\ OtherIdle
    /\ DriverIdle
    /\ hpc = "run"
    /\ \E s \in FragmentStrings(MaxFragments) : text = <<s>>

HealData ==
    /\ hpc = "run"
    /\ Len(text) <= MaxPasses
    /\ heal_data(text[Len(text)]).ok
    /\ text' = Append(text, heal_data(text[Len(text)]).text)
    /\ hpc' = hpc
    /\ UNCHANGED parserVars
    /\ UNCHANGED restVars

HealRaises ==
    /\ hpc = "run"
    /\ Len(text) <= MaxPasses
    /\ ~heal_data(text[Len(text)]).ok
    /\ hpc' = "raised"
    /\ text' = text
    /\ UNCHANGED parserVars
    /\ UNCHANGED restVars

NextHeal == HealData \/ HealRaises

SpecHeal == InitHeal /\ [][NextHeal]_vars

\* ------------------------------------------------------------------------
\* An IntelligentParser instance as a value: the fields of the object and the
\* locals of parse(); each stage as a function of that value
\* ------------------------------------------------------------------------
\* the caller is about to evaluate IntelligentParser(s, item_type_hint=h)
ParserOf(s, h) ==
    [pc |-> "new", raw_string |-> s, item_type_hint |-> h, raw |-> "",
     tokens |-> <<>>, data |-> InitialData, date_indices |-> <<>>,
     unknowns |-> <<>>, vendor_parts |-> <<>>, result |-> "pending"]

\* __init__ with the outcome h of heal_data and the dictionary fresh as self.data
ConstructWith(p, h, fresh) ==
    IF h.ok
    THEN [p EXCEPT !.raw = h.text, !.pc = "constructed", !.tokens = <<>>, !.data = fresh]
    ELSE [p EXCEPT !.pc = "raised", !.result = "raised", !.tokens = <<>>, !.data = fresh]

\* __init__ taking self.data from the dictionary of the instance in the
\* variables instead of a new literal
ConstructOfShared(p) ==
    ConstructWith(p, IF p.raw_string # "" THEN heal_data(p.raw_string)
                     ELSE [ok |-> TRUE, text |-> ""], data)

\* IntelligentParser.__init__
ConstructOf(p) ==
    ConstructWith(p, IF p.raw_string # "" THEN heal_data(p.raw_string)
                     ELSE [ok |-> TRUE, text |-> ""], InitialData)

\* parse(): `if not self.raw: return None`, then self.tokenize()
TokenizeOf(p) ==
    IF p.raw = "" THEN [p EXCEPT !.pc = "done", !.result = "None"]
    ELSE [p EXCEPT !.tokens = FindAll(p.raw, 1), !.pc = "tokenized"]

\* parse() step 1
ExtractFlagsOf(p) ==
    IF Len(p.tokens) >= 4 /\ \A i \in 1..4 : IsFlag(p.tokens[i])
    THEN IF \A i \in 1..4 : p.tokens[i] \in Digits
         THEN [p EXCEPT !.data.status_flags = [i \in 1..4 |-> DigitVal[p.tokens[i]]],
                        !.tokens = SubSeq(p.tokens, 5, Len(p.tokens)),
                        !.pc = "flags"]
         ELSE [p EXCEPT !.pc = "raised", !.result = "raised"]
    ELSE [p EXCEPT !.pc = "flags"]

\* the end of step 2 with the final loop state st
DatesInto(p, st) ==
    [p EXCEPT !.data.last_seen_time = st.time, !.data.currency = st.currency,
              !.date_indices = st.dates, !.tokens = st.clean, !.pc = "dates"]

\* parse() step 2
IdentifyDatesOf(p) ==
    DatesInto(p, DateLoop([toks |-> p.tokens, i |-> 1, time |-> p.data.last_seen_time,
                           currency |-> p.data.currency, dates |-> <<>>,
                           clean |-> <<>>]))

\* parse() step 3
BillNumberExtractionOf(p) ==
    [p EXCEPT !.data = IF p.date_indices # <<>>
                       THEN BillNumberOf(DateRoles(p.data, p.date_indices),
                                         p.date_indices, p.tokens)
                       ELSE p.data,
              !.pc = "anchor"]

\* the end of step 4 with the final loop state st
ContextInto(p, st) ==
    [p EXCEPT !.data = st.data, !.unknowns = st.unknowns, !.pc = "context"]

\* parse() step 4
ContextFillingOf(p) ==
    ContextInto(p, ContextLoop([toks |-> p.tokens, i |-> 1, data |-> p.data,
                                dates |-> p.date_indices, unknowns |-> <<>>]))

\* the end of step 5 with the final loop state st, and the return
ResidualInto(p, st) ==
    [p EXCEPT !.vendor_parts = st.vendor,
              !.data = IF st.vendor # <<>>
                       THEN [st.data EXCEPT !.vendor = Some(Join(st.vendor))]
                       ELSE st.data,
              !.pc = "done", !.result = "data"]

\* parse() step 5
VendorCallBarcodeOf(p) ==
    ResidualInto(p, ResidualLoop([toks |-> p.unknowns, i |-> 1, data |-> p.data,
                                  vendor |-> <<>>]))

\* the next stage of the instance p; an instance that returned or raised stays
StageOf(p) ==
    CASE p.pc = "new"         -> ConstructOf(p)
      [] p.pc = "constructed" -> TokenizeOf(p)
      [] p.pc = "tokenized"   -> ExtractFlagsOf(p)
      [] p.pc = "flags"       -> IdentifyDatesOf(p)
      [] p.pc = "dates"       -> BillNumberExtractionOf(p)
      [] p.pc = "anchor"      -> ContextFillingOf(p)
      [] p.pc = "context"     -> VendorCallBarcodeOf(p)
      [] OTHER                -> p

\* IntelligentParser(s, item_type_hint=h).parse() run alone: __init__ and the
\* seven stages in program order
RunParser(s, h) == Step8(StageOf, ParserOf(s, h))

\* the instance held in the variables
ThisParser ==
    [pc |-> pc, raw_string |-> raw_string, item_type_hint |-> item_type_hint,
     raw |-> raw, tokens |-> tokens, data |-> data, date_indices |-> date_indices,
     unknowns |-> unknowns, vendor_parts |-> vendor_parts, result |-> result]

\* ------------------------------------------------------------------------
\* Properties of parse()
\* ------------------------------------------------------------------------
\* the tokens of self.raw before any stage has run
OriginalTokens == FindAll(raw, 1)

\* C1: parsing Scenario A yields flags all false, price 250.00, bill_date =
\* date_acquired = last_seen_date = 2007-06-15, library_code "VIT",
\* shelving_location "IIF-R76-C2-A", call_number "621.7:744 BHA" and
\* barcode "5023"
C1_ScenarioA ==
    (raw_string = ScenarioA /\ pc = "done") =>
        /\ result = "data"
        /\ data.status_flags = <<0, 0, 0, 0>>
        /\ data.price = Some(FloatOfPrice("250.00"))
        /\ data.bill_date = Some(<<2007, 6, 15>>)
        /\ data.date_acquired = Some(<<2007, 6, 15>>)
        /\ data.last_seen_date = Some(<<2007, 6, 15>>)
        /\ data.library_code = Some("VIT")
        /\ data.shelving_location = Some("IIF-R76-C2-A")
        /\ data.call_number = Some("621.7:744 BHA")
        /\ data.barcode = Some("5023")

\* C2: parsing Scenario B yields bill_date 1984-02-10, last_seen_date
\* 2007-06-15, date_acquired 2007-06-15, bill_number "INV-204" (the token
\* before the leftmost date), library_code "VIT" and the default flags
C2_ScenarioB ==
    (raw_string = ScenarioB /\ pc = "done") =>
        /\ result = "data"
        /\ data.bill_date = Some(<<1984, 2, 10>>)
        /\ data.last_seen_date = Some(<<2007, 6, 15>>)
        /\ data.date_acquired = Some(<<2007, 6, 15>>)
        /\ data.bill_number = Some("INV-204")
        /\ data.library_code = Some("VIT")
        /\ data.status_flags = <<0, 0, 0, 0>>

\* Scenario B has been parsed to the end
C2_Witness == raw_string = ScenarioB /\ pc = "done" /\ result = "data"

\* C3: a token claimed by an earlier stage (as time, currency, date or
\* bill number) is not seen by a later stage: it is not passed on to the
\* residual classification and fills no other slot
C3_AtMostOneSlot ==
    (pc = "done" /\ result = "data") =>
        /\ \A i \in 1..Len(tokens) :
               ~TimeMatch(tokens[i]) /\ ~CurrencyMatch(tokens[i])
        /\ \A k \in 1..Len(date_indices) :
               LET token == tokens[date_indices[k].pos + 1]
               IN /\ data.shelving_location # Some(token)
                  /\ data.library_code # Some(token)
                  /\ \A j \in 1..Len(unknowns) : unknowns[j] # token
        /\ (date_indices # <<>> /\ data.bill_number # None) =>
               LET token == tokens[date_indices[1].pos]
               IN /\ data.shelving_location # Some(token)
                  /\ data.library_code # Some(token)
                  /\ \A j \in 1..Len(unknowns) : unknowns[j] # token

\* C4: no token is lost: every token of the tokenized string ends up in a
\* typed slot, in the vendor accumulator, or is a garbage literal or a token
\* of length 1
C4_NoTokenLost ==
    (pc = "done" /\ result = "data") =>
        \A i \in 1..Len(OriginalTokens) :
            LET token == OriginalTokens[i]
            IN \/ token \in Garbage
               \/ Len(token) = 1
               \/ \E j \in 1..Len(vendor_parts) : vendor_parts[j] = token
               \/ data.last_seen_time = Some(token)
               \/ CurrencyMatch(token) /\ data.currency = Upper(token)
               \/ /\ ParseDate(token).ok
                  /\ Some(ParseDate(token).d) \in
                        {data.bill_date, data.date_acquired, data.last_seen_date}
               \/ data.bill_number = Some(RemoveChar(RemoveChar(token, DQ), SQ))
               \/ data.library_code = Some(token)
               \/ data.shelving_location = Some(token)
               \/ PriceMatch(token) /\ data.price = Some(FloatOfPrice(token))
               \/ data.barcode = Some(token)
               \/ data.call_number = Some(token)

\* C5: a token of the date shape that is no calendar date is not removed by
\* the date stage: it is still in the token pool after that stage
C5_MalformedDateKept ==
    (pc \in {"dates", "anchor", "context", "done"} /\ result # "None") =>
        \A i \in 1..Len(OriginalTokens) :
            LET token == OriginalTokens[i]
            IN (DateMatch(token) /\ ~ParseDate(token).ok
                  /\ ~TimeMatch(token) /\ ~CurrencyMatch(token))
               => \E j \in 1..Len(tokens) : tokens[j] = token

\* C6: flag matching is all-or-nothing: unless at least four tokens exist and
\* each of the first four is exactly one digit, status_flags is the default
\* and every token stays in the pool; otherwise the four tokens leave the
\* pool and are read positionally
C6_FlagsAllOrNothing ==
    pc = "flags" =>
        LET allFour == /\ Len(OriginalTokens) >= 4
                       /\ \A i \in 1..4 : /\ Len(OriginalTokens[i]) = 1
                                          /\ OriginalTokens[i] \in Digits
        IN IF allFour
           THEN /\ \A i \in 1..4 : data.status_flags[i] = DigitVal[OriginalTokens[i]]
                /\ tokens = SubSeq(OriginalTokens, 5, Len(OriginalTokens))
           ELSE /\ data.status_flags = <<0, 0, 0, 0>>
                /\ tokens = OriginalTokens

\* four or more tokens, of the first four some single digits and some not
C6_Witness ==
    /\ pc = "flags"
    /\ Len(OriginalTokens) >= 4
    /\ \E i \in 1..4 : Len(OriginalTokens[i]) = 1 /\ OriginalTokens[i] \in Digits
    /\ \E i \in 1..4 : ~(Len(OriginalTokens[i]) = 1 /\ OriginalTokens[i] \in Digits)
    /\ tokens = OriginalTokens

\* C7: with two or more parsed dates, wherever they stand, bill_date is the
\* earliest by value, last_seen_date the latest, and
\* bill_date <= date_acquired <= last_seen_date
C7_DateOrdering ==
    (pc \in {"anchor", "context", "done"} /\ Len(date_indices) >= 2) =>
        /\ data.bill_date # None /\ data.date_acquired # None
        /\ data.last_seen_date # None
        /\ \E k \in 1..Len(date_indices) : data.bill_date = Some(date_indices[k].d)
        /\ \E k \in 1..Len(date_indices) : data.last_seen_date = Some(date_indices[k].d)
        /\ \A k \in 1..Len(date_indices) :
               /\ ~DateLess(date_indices[k].d, data.bill_date[1])
               /\ ~DateLess(data.last_seen_date[1], date_indices[k].d)
        /\ ~DateLess(data.date_acquired[1], data.bill_date[1])
        /\ ~DateLess(data.last_seen_date[1], data.date_acquired[1])

\* three dates whose token order is not their order by value
C7_Witness ==
    /\ pc = "done"
    /\ Len(date_indices) >= 3
    /\ \E k \in 1..(Len(date_indices) - 1) :
           DateLess(date_indices[k + 1].d, date_indices[k].d)

\* C8: when a price is captured, the barcode never has the integer value of
\* the integer part of the price, leading zeros included
C8_PriceExclusion ==
    (pc = "done" /\ data.price # None /\ data.barcode # None) =>
        BigOfDigits(data.barcode[1]) # FloatTrunc(data.price[1])

\* ------------------------------------------------------------------------
\* Properties of heal_data
\* ------------------------------------------------------------------------
\* C9: heal_data(heal_data(s)) = heal_data(s): a second healing pass never
\* changes the output
C9_HealIdempotent == Len(text) >= 3 => text[3] = text[2]

IsIsbnLike(t) == Len(t) >= 10 /\ SubSeq(t, 1, 3) = "978"

\* C11: a token that starts with "978" and has at least ten characters is
\* never the call_number or the barcode of the record; when it reaches the
\* residual classification it is in the vendor accumulator
C11_IsbnToVendor ==
    (pc = "done" /\ result = "data") =>
        /\ \A i \in 1..Len(tokens) :
               IsIsbnLike(tokens[i]) =>
                   /\ data.barcode # Some(tokens[i])
                   /\ data.call_number # Some(tokens[i])
        /\ \A i \in 1..Len(unknowns) :
               IsIsbnLike(unknowns[i]) =>
                   \E j \in 1..Len(vendor_parts) : vendor_parts[j] = unknowns[i]

\* ------------------------------------------------------------------------
\* Failures of the healer and of the classifier
\* ------------------------------------------------------------------------
\* __init__ raised: self.raw was never assigned
ConstructionRaised == pc = "raised" /\ raw = ""

\* C12: a substring of the scientific-notation shape whose conversion fails
\* is left unchanged by heal_data, and neither heal_data nor the
\* construction of the parser raises
C12_HealFailureKept ==
    pc # "new" =>
        /\ ~ConstructionRaised
        /\ \A j \in 1..Len(raw_string) :
               LET m == SciMatch(raw_string, j)
               IN (m.ok /\ ~HealReplace(m.g1, m.g2).ok)
                  => Contains(raw, SubSeq(raw_string, j, m.last))

\* C13: the classifier never raises: for every raw string and item-type hint
\* construction and parse() end with a record or with None
C13_NeverRaises == result # "raised"

\* ------------------------------------------------------------------------
\* The outcome without data
\* ------------------------------------------------------------------------
\* C14: for the empty string parse() returns None, not a record of default
\* values
C14_EmptyIsNoData == (raw_string = "" /\ pc = "done") => result = "None"

\* the empty string has been constructed and parsed
C14_Witness == raw_string = "" /\ pc = "done" /\ raw = "" /\ tokens = <<>>

\* `len(self.raw) < 5` of the earlier parser: the minimum length of a
\* holdings string
MinRawLength == 5

\* C15: a raw string below the minimum length, or one whose tokenization is
\* empty (only whitespace), yields None and never a record of default values
C15_ShortIsNoData ==
    (pc = "done" /\ (Len(raw) < MinRawLength \/ OriginalTokens = <<>>)) =>
        result = "None"

\* ------------------------------------------------------------------------
\* Dates and the anchor
\* ------------------------------------------------------------------------
\* C16: when no date token was parsed, bill_number is absent from the
\* returned record, whatever other tokens are present
C16_NoDateNoBillNumber ==
    (pc \in {"anchor", "context", "done"} /\ date_indices = <<>>) =>
        data.bill_number = None

\* a record was returned for tokens none of which parsed as a date, one of
\* them date-shaped with a token before it
C16_Witness ==
    /\ pc = "done" /\ result = "data" /\ date_indices = <<>>
    /\ \E i \in 2..Len(OriginalTokens) : DateMatch(OriginalTokens[i])

\* C20: when exactly one date was parsed it is the date_acquired of the
\* record, and bill_date and last_seen_date stay absent
C20_SingleDateAcquired ==
    (pc \in {"anchor", "context", "done"} /\ Len(date_indices) = 1) =>
        /\ data.date_acquired = Some(date_indices[1].d)
        /\ data.bill_date = None
        /\ data.last_seen_date = None

\* ------------------------------------------------------------------------
\* Two parser instances whose stages interleave
\* ------------------------------------------------------------------------
\* holdings strings given to the two instances
PairStrings ==
    {ScenarioA, ScenarioB, "1 0 1 1 usd 10:30:00 NONE", "250.00 0250",
     "9.9E+400 VIT", ""}

\* two callers are each about to construct a parser of their own
InitPair ==
    /\ pc = "new"
    /\ raw_string \in PairStrings
    /\ item_type_hint \in Hints
    /\ raw = "" /\ tokens = <<>> /\ data = InitialData /\ date_indices = <<>>
    /\ unknowns = <<>> /\ vendor_parts = <<>> /\ result = "pending"
    /\ HealIdle
    /\ \E s \in PairStrings, h \in Hints : other = ParserOf(s, h)
    /\ DriverIdle

\* the second instance runs its next stage (__init__, then the steps of parse)
OtherStage ==
    /\ other.pc \notin {"idle", "done", "raised"}
    /\ other' = StageOf(other)
    /\ UNCHANGED parserVars
    /\ UNCHANGED healVars
    /\ UNCHANGED driverVars

NextPair == Next \/ OtherStage

SpecPair == InitPair /\ [][NextPair]_vars

MaxLines == 3

\* len(batch_biblio) at which the loop commits
BatchSize == 5000

\* values of field 942 (item type) and of field 952 (holdings) of a record
Field942 == {"BK", ""}

Field952 == {"", " ", "VIT 5023", "1 0 ² 0 VIT"}

\* a line of the input file: bytes that are not UTF-8, text that is not
\* JSON, or a JSON record
UndecodableLine == [kind |-> "undecodable", f942 |-> "", f952 |-> ""]

BadJsonLine == [kind |-> "badjson", f942 |-> "", f952 |-> ""]

RecordLines == {[kind |-> "record", f942 |-> a, f952 |-> b] : a \in Field942, b \in Field952}

FileLines == {UndecodableLine, BadJsonLine} \cup RecordLines

InputFiles == UNION {[1..n -> FileLines] : n \in 0..MaxLines}

\* json.loads(line) raises, or rec.get('942', '').split()[0] raises on a
\* blank field: the exception leaves the try body before batch_biblio.append
BiblioRaises(l) == l.kind = "badjson" \/ FindAll(l.f942, 1) = <<>>

\* the tuple appended to batch_biblio (id and item type; the other columns
\* are copied from the record)
BiblioRowOf(id, l) == [biblio_id |-> id, item_type |-> FindAll(l.f942, 1)[1]]

\* the tuple appended to batch_items for the dictionary d
ItemRowOf(id, d) ==
    [biblio_id |-> id, barcode |-> d.barcode, call_number |-> d.call_number,
     shelving_location |-> d.shelving_location, library_code |-> d.library_code,
     vendor |-> d.vendor, bill_number |-> d.bill_number, price |-> d.price,
     currency |-> d.currency, bill_date |-> d.bill_date,
     date_acquired |-> d.date_acquired, last_seen_date |-> d.last_seen_date,
     is_withdrawn |-> d.status_flags[1], is_lost |-> d.status_flags[2],
     is_damaged |-> d.status_flags[3], is_restricted |-> d.status_flags[4]]

\* a row is appended whatever the parser did
ItemRowsAlways(id, p) == <<ItemRowOf(id, p.data)>>

\* the rows appended by `item = parser.parse(); batch_items.append(...)` for
\* the finished parser p: none when the constructor or parse() raised, none
\* when item is None (item['barcode'] raises)
ItemRows(id, p) == IF p.result = "data" THEN <<ItemRowOf(id, p.data)>> ELSE <<>>

\* INSERT OR REPLACE of one row into biblio_master (biblio_id is the key)
InsertOrReplace(tbl, row) ==
    SelectSeq(tbl, LAMBDA r : r.biblio_id # row.biblio_id) \o <<row>>

\* executemany("INSERT OR REPLACE INTO biblio_master ...", rows)
RECURSIVE ExecuteManyReplace(_, _)
ExecuteManyReplace(tbl, rows) ==
    IF rows = <<>> THEN tbl
    ELSE ExecuteManyReplace(InsertOrReplace(tbl, Head(rows)), Tail(rows))

\* the two executemany calls and conn.commit()
Commit(st) ==
    [st EXCEPT !.biblio_master = ExecuteManyReplace(@, st.batch_biblio),
               !.physical_items = @ \o st.batch_items]

\* the batch commit at the end of the try body
BatchCommit(st) ==
    IF Len(st.batch_biblio) >= BatchSize
    THEN [Commit(st) EXCEPT !.batch_biblio = <<>>, !.batch_items = <<>>]
    ELSE st

\* the try body after parser.parse() with the rows it appends
AfterItemRows(st, rows) ==
    IF rows = <<>> THEN st
    ELSE BatchCommit([st EXCEPT !.batch_items = @ \o rows])

\* the try body from `raw_952 = rec.get('952', '')` on
ItemParsing(st, id, l) ==
    IF l.f952 # ""
    THEN AfterItemRows(st, ItemRows(id, RunParser(l.f952, l.f942)))
    ELSE BatchCommit(st)

\* the try body for line l with its except clause
TryBody(st, id, l) ==
    IF BiblioRaises(l) THEN st
    ELSE ItemParsing([st EXCEPT !.batch_biblio = Append(@, BiblioRowOf(id, l))], id, l)

\* the buffers and tables of the driver
DriverState ==
    [batch_biblio |-> batch_biblio, batch_items |-> batch_items,
     biblio_master |-> biblio_master, physical_items |-> physical_items]

SetDriverState(st) ==
    /\ batch_biblio' = st.batch_biblio
    /\ batch_items' = st.batch_items
    /\ biblio_master' = st.biblio_master
    /\ physical_items' = st.physical_items

\* run_migration has opened the database (empty tables) and the input file
InitDriver ==
    /\ ParserIdle /\ HealIdle /\ OtherIdle
    /\ lines \in InputFiles
    /\ line_no = 0
    /\ batch_biblio = <<>> /\ batch_items = <<>>
    /\ biblio_master = <<>> /\ physical_items = <<>>
    /\ dpc = "loop"

\* `for line in f`: the text layer decodes the file a chunk at a time, so a
\* line that is not UTF-8 raises UnicodeDecodeError when its chunk is read,
\* at the latest when the loop asks for that line. The exception is raised
\* outside the try statement and leaves run_migration: nothing buffered is
\* committed.
DecodeError ==
    /\ dpc = "loop"
    /\ \E i \in (line_no + 1)..Len(lines) : lines[i].kind = "undecodable"
    /\ dpc' = "aborted"
    /\ batch_biblio' = <<>> /\ batch_items' = <<>>
    /\ UNCHANGED <<lines, line_no, biblio_master, physical_items, other>>
    /\ UNCHANGED parserVars
    /\ UNCHANGED healVars

\* one iteration of the loop: the try body for the next line
DriverLine ==
    /\ dpc = "loop"
    /\ line_no < Len(lines)
    /\ lines[line_no + 1].kind # "undecodable"
    /\ SetDriverState(TryBody(DriverState, line_no + 1, lines[line_no + 1]))
    /\ line_no' = line_no + 1
    /\ UNCHANGED <<lines, dpc, other>>
    /\ UNCHANGED parserVars
    /\ UNCHANGED healVars

\* the final commit and conn.close()
DriverFinal ==
    /\ dpc = "loop"
    /\ line_no = Len(lines)
    /\ SetDriverState(IF batch_biblio # <<>> THEN Commit(DriverState) ELSE DriverState)
    /\ dpc' = "closed"
    /\ UNCHANGED <<lines, line_no, other>>
    /\ UNCHANGED parserVars
    /\ UNCHANGED healVars

NextDriver == DecodeError \/ DriverLine \/ DriverFinal

SpecDriver == InitDriver /\ [][NextDriver]_vars

\* the rows buffered or committed for the record of line i
BiblioRowsFor(i) ==
    {k \in 1..Len(batch_biblio) : batch_biblio[k].biblio_id = i}
    \cup {Len(batch_biblio) + k : k \in {k \in 1..Len(biblio_master) : biblio_master[k].biblio_id = i}}

ItemRowsFor(i) ==
    {k \in 1..Len(batch_items) : batch_items[k].biblio_id = i}
    \cup {Len(batch_items) + k : k \in {k \in 1..Len(physical_items) : physical_items[k].biblio_id = i}}

\* what classification of the holdings field of line l yields
HoldingsResult(l) == RunParser(l.f952, l.f942).result

\* C18: the driver produces a physical-item row for a record only when
\* classification of its holdings field (952) returned a record; a record
\* whose holdings yield "no data" and whose parent row was built contributes
\* that biblio row and no item row, in the buffers while the loop runs and in
\* the tables once the run has closed.
C18_ItemRowOnlyForRecord ==
    \A i \in 1..Len(lines) :
        /\ ItemRowsFor(i) # {}
               => /\ i <= line_no
                  /\ lines[i].kind = "record"
                  /\ HoldingsResult(lines[i]) = "data"
        /\ (/\ i <= line_no /\ dpc \in {"loop", "closed"}
            /\ lines[i].kind = "record"
            /\ ~BiblioRaises(lines[i])
            /\ HoldingsResult(lines[i]) = "None")
               => /\ BiblioRowsFor(i) # {}
                  /\ ItemRowsFor(i) = {}
        /\ (dpc = "closed" /\ ItemRowsFor(i) # {})
               => \E k \in 1..Len(physical_items) : physical_items[k].biblio_id = i

\* a closed run that held a record without holdings (parent row, no item
\* row), a record whose parser raised (parent row, no item row) and a record
\* whose holdings were classified (parent row and item row)
C18_Witness ==
    /\ dpc = "closed"
    /\ \E i, j, k \in 1..Len(lines) :
          /\ lines[i].kind = "record" /\ lines[i].f952 = ""
          /\ \E r \in 1..Len(biblio_master) : biblio_master[r].biblio_id = i
          /\ ItemRowsFor(i) = {}
          /\ lines[j].kind = "record" /\ HoldingsResult(lines[j]) = "raised"
          /\ \E r \in 1..Len(biblio_master) : biblio_master[r].biblio_id = j
          /\ ItemRowsFor(j) = {}
          /\ lines[k].kind = "record"
          /\ \E r \in 1..Len(physical_items) : physical_items[r].biblio_id = k

\* C19: in run_migration a record whose processing raises, such as a line
\* that fails to decode, is skipped without aborting the batch: the run is
\* never aborted, and when it has closed every line was processed and the
\* parent row of every well-formed record is in biblio_master.
C19_RaisingRecordSkipped ==
    /\ dpc # "aborted"
    /\ dpc = "closed"
           => /\ line_no = Len(lines)
              /\ \A i \in 1..Len(lines) :
                    (lines[i].kind = "record" /\ ~BiblioRaises(lines[i]))
                        => \E r \in 1..Len(biblio_master) : biblio_master[r].biblio_id = i

\* the distinct date values found by step 2
DateValues == {date_indices[k].d : k \in 1..Len(date_indices)}

\* the latest and the second earliest of a set of dates
LatestDate(S) == CHOOSE x \in S : \A y \in S : ~DateLess(x, y)

SecondDate(S) == CHOOSE x \in S : Cardinality({y \in S : DateLess(y, x)}) = 1

\* C21: when exactly two distinct date values were found, however many date
\* tokens carry them, date_acquired is the later one and equals
\* last_seen_date; when three or more distinct values were found,
\* date_acquired is the value ranked second.
C21_DateAcquiredByValue ==
    pc \in {"anchor", "context", "done"}
        => /\ Cardinality(DateValues) = 2
                 => /\ data.date_acquired = Some(LatestDate(DateValues))
                    /\ data.date_acquired = data.last_seen_date
           /\ Cardinality(DateValues) >= 3
                 => data.date_acquired = Some(SecondDate(DateValues))

\* the positions of the date tokens in the sequence as tokenized
OriginalDatePositions ==
    {i \in 1..Len(OriginalTokens) :
        DateMatch(OriginalTokens[i]) /\ ParseDate(OriginalTokens[i]).ok}

\* candidate.replace('"', '').replace("'", "")
StripQuotes(t) == RemoveChar(RemoveChar(t, DQ), SQ)

\* C22: bill_number, when set, is the token that immediately precedes the
\* leftmost date token in the sequence as tokenized (before time, currency
\* and unparseable-date tokens are removed), never a non-adjacent token, and
\* it is absent when the leftmost date is the first token.
C22_AnchorAdjacentInOriginal ==
    pc \in {"anchor", "context", "done"}
        => /\ data.bill_number # None
                 => /\ OriginalDatePositions # {}
                    /\ Min(OriginalDatePositions) > 1
                    /\ data.bill_number
                         = Some(StripQuotes(OriginalTokens[Min(OriginalDatePositions) - 1]))
           /\ (OriginalDatePositions # {} /\ Min(OriginalDatePositions) = 1)
                 => data.bill_number = None

\* the number of "-" in t
Hyphens(t) == Cardinality({i \in 1..Len(t) : Char(t, i) = "-"})

\* any(c.isalpha() for c in t), ASCII letters
HasAlpha(t) ==
    \E i \in 1..Len(t) : Char(t, i) \in UpperLetters \cup DOMAIN LowerToUpper

\* the shelving rule of the earlier parser generation: a hyphenated token with
\* a letter and len(token.split('-')) >= 3
ShelvingShape(t) == Hyphens(t) >= 1 /\ HasAlpha(t) /\ Hyphens(t) + 1 >= 3

\* C23: when the token before the leftmost date is a reserved literal ("0",
\* "NONE", "NULL", "VIT" or a token of the shelving-location shape),
\* bill_number stays absent and the token is classified normally (a shelving
\* token as shelving_location, VIT as library_code); any other predecessor is
\* captured as bill_number with its quote characters stripped.
C23_ReservedAnchor ==
    (pc = "done" /\ result = "data" /\ date_indices # <<>> /\ date_indices[1].pos > 0)
        => LET candidate == tokens[date_indices[1].pos]
               ReservedLiteral(t) == t \in {"0", "NONE", "NULL", "VIT"} \/ ShelvingShape(t)
           IN /\ ReservedLiteral(candidate)
                    => /\ data.bill_number = None
                       /\ ShelvingShape(candidate) => data.shelving_location # None
                       /\ candidate = "VIT" => data.library_code = Some("VIT")
              /\ ~ReservedLiteral(candidate)
                    => data.bill_number = Some(StripQuotes(candidate))

\* the positions of the price-shaped tokens that step 4 classifies
PricePositions ==
    {i \in 1..Len(tokens) : /\ PriceMatch(tokens[i])
                            /\ Some(tokens[i]) # data.bill_number
                            /\ ~IsKnownDate(tokens[i], date_indices)}

\* C24: price is first-match-wins: the final price is that of the leftmost
\* price-shaped token of the pool, and later price-shaped tokens never
\* overwrite it.
C24_FirstPriceWins ==
    (pc \in {"context", "done"} /\ PricePositions # {})
        => data.price = Some(FloatOfPrice(tokens[Min(PricePositions)]))

\* C25: a token is stored as shelving_location only if it consists of at
\* least three hyphen-separated alphanumeric segments and contains an
\* alphabetic character, so no date-shaped token and no purely numeric
\* hyphenated token is ever stored there.
C25_ShelvingNeedsLetter ==
    data.shelving_location # None
        => LET t == data.shelving_location[1]
               AlnumOrHyphen == UpperLetters \cup DOMAIN LowerToUpper \cup Digits \cup {"-"}
           IN /\ ShelvingShape(t)
              /\ \A i \in 1..Len(t) : Char(t, i) \in AlnumOrHyphen
              /\ \A i \in 0..Len(t) :
                    ~(Char(t, i) \in {"", "-"} /\ Char(t, i + 1) \in {"", "-"})
              /\ ~DateMatch(t)

\* ------------------------------------------------------------------------
\* The tokenizer on strings of separators and quote characters
\* ------------------------------------------------------------------------
\* most characters of a string handed to the tokenizer
MaxChars == 5

\* a letter, the separators and the two quote characters
TokenizerChars == {"a", " ", "\t", DQ, SQ}

RECURSIVE CharStrings(_)
CharStrings(n) ==
    IF n = 0 THEN {""}
    ELSE LET shorter == CharStrings(n - 1)
         IN shorter \cup {t \o c : t \in shorter, c \in TokenizerChars}

\* a caller is about to construct a parser for a string of TokenizerChars
InitTokenize ==
    /\ pc = "new"
    /\ raw_string \in CharStrings(MaxChars)
    /\ item_type_hint = "BK"
    /\ raw = "" /\ tokens = <<>> /\ data = InitialData /\ date_indices = <<>>
    /\ unknowns = <<>> /\ vendor_parts = <<>> /\ result = "pending"
    /\ HealIdle
    /\ OtherIdle
    /\ DriverIdle

\* __init__ and parse() up to the return of self.tokenize()
NextTokenize == Construct \/ ParseEmpty \/ Tokenize

SpecTokenize == InitTokenize /\ [][NextTokenize]_vars

\* str.split(): the maximal runs of non-whitespace characters from i on
RECURSIVE SplitFrom(_, _)
SplitFrom(s, i) ==
    LET starts == {j \in i..Len(s) : Char(s, j) \notin WhiteSpace}
    IN IF starts = {} THEN <<>>
       ELSE LET j == Min(starts)
                e == RunEnd(s, j, {Char(s, k) : k \in 1..Len(s)} \ WhiteSpace)
            IN <<SubSeq(s, j, e)>> \o SplitFrom(s, e + 1)

\* self.raw.split() of the earlier parser generation
Split(s) == SplitFrom(s, 1)

\* "".join(parts)
RECURSIVE Concat(_)
Concat(parts) ==
    IF parts = <<>> THEN "" ELSE Concat(SubSeq(parts, 1, Len(parts) - 1)) \o parts[Len(parts)]

\* s without its whitespace characters
NoSpace(s) == Concat(Split(s))

HasQuote(s) == Contains(s, DQ) \/ Contains(s, SQ)

\* a complete quoted segment: '...', "..." or "'...'"
QuotedSegment(t) ==
    /\ Len(t) >= 3
    /\ Char(t, 1) \in {DQ, SQ}
    /\ Char(t, Len(t)) = Char(t, 1)

\* C26: the tokenizer returns, in order, each complete quoted segment as one
\* token and each other maximal run of non-space characters as one token, and
\* the stored text of a quoted token has its quote characters stripped.
C26_QuotesStripped ==
    pc = "tokenized"
        => /\ \A i \in 1..Len(tokens) : tokens[i] # ""
           /\ \A i \in 1..Len(tokens) : ~QuotedSegment(tokens[i])

\* C29: every non-whitespace character of the raw string belongs to exactly
\* one token and the tokens keep their left-to-right order; for a raw string
\* without quote characters the regex tokenizer yields exactly the token
\* sequence of the whitespace split of the earlier parser generation.
C29_TokenizerRefinesSplit ==
    pc = "tokenized"
        => /\ NoSpace(Concat(tokens)) = NoSpace(raw)
           /\ \A i \in 1..Len(tokens) : tokens[i] # ""
           /\ ~HasQuote(raw) => tokens = Split(raw)

\* a string with two separators in a row and a tab, without quotes, has been
\* tokenized into two tokens
C29_Witness ==
    /\ pc = "tokenized"
    /\ ~HasQuote(raw)
    /\ Contains(raw, "\t") /\ Contains(raw, "  ")
    /\ Len(tokens) = 2

\* next_t.isalpha() and next_t.isupper() and len(next_t) < 5
IsCutter(t) ==
    /\ Len(t) >= 1 /\ Len(t) < 5
    /\ \A i \in 1..Len(t) : Char(t, i) \in UpperLetters

\* C27: call_number is the first residual token that is not ISBN-like and
\* contains a colon or a digit-dot-digit pattern; when the token right after
\* it is shorter than 5 characters, all-uppercase and alphabetic, that token
\* is appended after a space as a Cutter suffix and is not added to vendor;
\* later candidates do not overwrite it.
C27_CallNumberWithCutter ==
    (pc = "done" /\ result = "data")
        => LET DigitDotDigit(t) ==
                   \E i \in 2..(Len(t) - 1) : /\ Char(t, i) = "."
                                              /\ Char(t, i - 1) \in Digits
                                              /\ Char(t, i + 1) \in Digits
               candidates ==
                   {i \in 1..Len(unknowns) :
                       /\ ~IsIsbnLike(unknowns[i])
                       /\ Contains(unknowns[i], ":") \/ DigitDotDigit(unknowns[i])}
               first == Min(candidates)
               cutter == first < Len(unknowns) /\ IsCutter(unknowns[first + 1])
           IN candidates # {}
                 => /\ data.call_number
                         = Some(IF cutter
                                THEN unknowns[first] \o " " \o unknowns[first + 1]
                                ELSE unknowns[first])
                    /\ cutter => \A j \in 1..Len(vendor_parts) :
                                     vendor_parts[j] # unknowns[first + 1]

\* the item-type hints that mark an electronic item
ElectronicHints == {"EB", "E-BOOK"}

\* C28: barcode is the first residual token that is purely numeric with more
\* than 3 digits and differs from the integer part of the price; under an
\* electronic item-type hint an alphanumeric residual token longer than 3
\* characters with a digit qualifies too; without that hint a non-numeric
\* token never becomes barcode; the first match is never overwritten.
C28_BarcodeRule ==
    (pc = "done" /\ result = "data")
        => LET Alnum(t) ==
                   \A i \in 1..Len(t) :
                       Char(t, i) \in UpperLetters \cup DOMAIN LowerToUpper \cup Digits
               Qualifies(t) ==
                   \/ IsDigitStr(t) /\ Len(t) > 3 /\ ~IsPrice(data.price, t)
                   \/ /\ item_type_hint \in ElectronicHints
                      /\ Alnum(t) /\ Len(t) > 3 /\ HasDigit(t)
               matches == {i \in 1..Len(unknowns) : Qualifies(unknowns[i])}
           IN /\ matches # {} => data.barcode = Some(unknowns[Min(matches)])
              /\ matches = {} => data.barcode = None
              /\ (item_type_hint \notin ElectronicHints /\ data.barcode # None)
                    => IsDigitStr(data.barcode[1])

\* the records before line_no whose try body appended a parent row
BufferedRecords ==
    {i \in 1..line_no : lines[i].kind = "record" /\ ~BiblioRaises(lines[i])}

\* C30: in run_migration every buffered item row has its parent biblio row in
\* the biblio buffer of the same batch, every written item row has its parent
\* in biblio_master, and when the run has ended no buffered row was written
\* twice or left unwritten.
C30_BatchesKeepParents ==
    /\ \A k \in 1..Len(batch_items) :
          \E r \in 1..Len(batch_biblio) :
              batch_biblio[r].biblio_id = batch_items[k].biblio_id
    /\ \A k \in 1..Len(physical_items) :
          \E r \in 1..Len(biblio_master) :
              biblio_master[r].biblio_id = physical_items[k].biblio_id
    /\ dpc \in {"closed", "aborted"}
          => \A i \in BufferedRecords :
                /\ Cardinality({r \in 1..Len(biblio_master) :
                                    biblio_master[r].biblio_id = i}) = 1
                /\ Cardinality({k \in 1..Len(physical_items) :
                                    physical_items[k].biblio_id = i})
                     = IF lines[i].f952 = "" THEN 0
                       ELSE Len(ItemRows(i, RunParser(lines[i].f952, lines[i].f942)))

====
